---- MODULE Spec2Model ----
(***************************************************************************)
(* cellcontrol: handler -> service -> repository -> store.                 *)
(*                                                                         *)
(* Strings are sequences of one-character strings, so that trimming and    *)
(* case folding are computed character by character as the Go code does.   *)
(* A request is handled by one action: the handler is synchronous and      *)
(* touches the shared store in exactly one statement (one INSERT or one    *)
(* SELECT), so concurrent requests are the interleavings of these actions. *)
(***************************************************************************)
EXTENDS Integers, Sequences, FiniteSets, TLC

VARIABLES
    users,      \* the users table, rows in rowid order
    nextId,     \* the table's AUTOINCREMENT counter
    dbUp,       \* whether the database answers statements
    now,        \* the wall clock read by the ORM on insert
    svcNil,     \* UserHandler.svc is the nil interface
    req,        \* the operation handled last and its input
    resp,       \* the HTTP response written for it
    svcRet,     \* what the service was called with and returned
    repoRet,    \* what the repository was called with and returned
    dbOps,      \* the statements that operation ran against the store
    acked,      \* the fields of the create payloads answered 201 so far
    writes,     \* the c.JSON calls made while handling the last request
    pc,         \* where main is
    osEnv,      \* the process environment
    dotenv,     \* the .env file in the working directory
    cfg,        \* the *config.Config, once loaded
    loggers,    \* which of infoLogger, errorLogger are non-nil
    out,        \* what main and the packages it calls logged to stdout and stderr
    dbConn,     \* the connection of NewDatabase: opened, table migrated
    conns       \* the requests being handled concurrently

\* what the request handlers and the service never touch
auxVars == <<pc, osEnv, dotenv, cfg, loggers, out, dbConn, conns>>

\* auxVars without the position of main
envVars == <<osEnv, dotenv, cfg, loggers, out, dbConn, conns>>

vars == <<users, nextId, dbUp, now, svcNil, req, resp, svcRet, repoRet, dbOps, acked,
          writes, pc, osEnv, dotenv, cfg, loggers, out, dbConn, conns>>

----------------------------------------------------------------------------
(* Bounds *)

\* surrounding blanks put around an input string, each side
MaxPad == 1
\* the clock runs from 1 to MaxTime
MaxTime == 2
\* the lines written to the logs
MaxLog == 3

----------------------------------------------------------------------------
(* Strings *)

\* unicode.IsSpace, restricted to the blanks of the model's alphabet
IsSpace(c) == c \in {" ", "\t"}

RECURSIVE TrimLeft(_)
TrimLeft(s) ==
    IF s = <<>> THEN <<>>
    ELSE IF IsSpace(Head(s)) THEN TrimLeft(Tail(s)) ELSE s

RECURSIVE TrimRight(_)
TrimRight(s) ==
    IF s = <<>> THEN <<>>
    ELSE IF IsSpace(s[Len(s)]) THEN TrimRight(SubSeq(s, 1, Len(s) - 1)) ELSE s

\* a plausible slip: only the leading blanks are removed
TrimSpaceLeftOnly(s) == TrimLeft(s)

\* strings.TrimSpace
TrimSpace(s) == TrimRight(TrimLeft(s))

\* a plausible slip: the folding swaps the case
ToLowerRuneSwap(c) ==
    CASE c = "A" -> "a"
      [] c = "a" -> "A"
      [] c = "B" -> "b"
      [] c = "b" -> "B"
      [] OTHER -> c

\* unicode.ToLower on the model's alphabet
ToLowerRune(c) ==
    CASE c = "A" -> "a"
      [] c = "B" -> "b"
      [] c = "J" -> "j"
      [] c = "P" -> "p"
      [] c = "I" -> "i"
      [] c = "T" -> "t"
      [] OTHER -> c

\* a plausible slip: the case folding is forgotten
ToLowerIdentity(s) == s

\* strings.ToLower
ToLower(s) == [i \in DOMAIN s |-> ToLowerRune(s[i])]

Pad(n) == [i \in 1..n |-> " "]

\* a core string, bare and with MaxPad blanks on each side
Padded(cores) == cores \cup { Pad(MaxPad) \o c \o Pad(MaxPad) : c \in cores }

----------------------------------------------------------------------------
(* domain.User and the store *)

\* the zero time.Time; the clock starts after it
ZeroTime == 0

ErrNil == "nil"
ErrUnique == "UNIQUE constraint failed: users.email"
ErrPrimaryKey == "UNIQUE constraint failed: users.id"
ErrConn == "database unreachable"

\* a Go slice: the nil slice and the empty non-nil slice are different values
NilSlice == [isNil |-> TRUE, elems |-> <<>>]
Slice(s) == [isNil |-> FALSE, elems |-> s]

\* a plausible slip: the primary key is written as handed over, never generated
AssignIDKeep(u, nid) == u.ID

\* primaryKey;autoIncrement: a zero ID is left out of the INSERT and generated
AssignID(u, nid) == IF u.ID = 0 THEN nid ELSE u.ID

\* a plausible slip: the email column has no unique index
UniqueViolationNone(row, tbl) == FALSE

\* uniqueIndex on Email: the store compares the column byte by byte
UniqueViolation(row, tbl) == \E i \in DOMAIN tbl : tbl[i].Email = row.Email

PrimaryKeyViolation(row, tbl) == \E i \in DOMAIN tbl : tbl[i].ID = row.ID

\* the ORM fills zero timestamps with the current time
AutoTime(ts, t) == IF ts = ZeroTime THEN t ELSE ts

\* a plausible slip: a save that overwrites the row holding the email
GormCreateUpsert(u, tbl, nid, up, t) ==
    IF ~up
    THEN [err |-> ErrConn, users |-> tbl, nextId |-> nid]
    ELSE LET row == [u EXCEPT !.ID = AssignID(u, nid),
                              !.CreatedAt = AutoTime(u.CreatedAt, t),
                              !.UpdatedAt = AutoTime(u.UpdatedAt, t)]
         IN IF PrimaryKeyViolation(row, tbl)
            THEN [err |-> ErrPrimaryKey, users |-> tbl, nextId |-> nid]
            ELSE IF UniqueViolation(row, tbl)
            THEN [err |-> ErrNil,
                  users |-> [i \in DOMAIN tbl |->
                                IF tbl[i].Email = row.Email
                                THEN [row EXCEPT !.ID = tbl[i].ID] ELSE tbl[i]],
                  nextId |-> nid]
            ELSE [err |-> ErrNil, users |-> Append(tbl, row),
                  nextId |-> IF row.ID >= nid THEN row.ID + 1 ELSE nid]

\* db.Create(user): one INSERT statement
GormCreate(u, tbl, nid, up, t) ==
    IF ~up
    THEN [err |-> ErrConn, users |-> tbl, nextId |-> nid]
    ELSE LET row == [u EXCEPT !.ID = AssignID(u, nid),
                              !.CreatedAt = AutoTime(u.CreatedAt, t),
                              !.UpdatedAt = AutoTime(u.UpdatedAt, t)]
         IN IF PrimaryKeyViolation(row, tbl)
            THEN [err |-> ErrPrimaryKey, users |-> tbl, nextId |-> nid]
            ELSE IF UniqueViolation(row, tbl)
            THEN [err |-> ErrUnique, users |-> tbl, nextId |-> nid]
            ELSE [err |-> ErrNil, users |-> Append(tbl, row),
                  nextId |-> IF row.ID >= nid THEN row.ID + 1 ELSE nid]

\* a plausible slip: the destination slice is left nil when no row is found
GormFindNilOnEmpty(dest, tbl, up) ==
    IF ~up THEN [users |-> dest, err |-> ErrConn]
    ELSE IF tbl = <<>> THEN [users |-> dest, err |-> ErrNil]
    ELSE [users |-> Slice(tbl), err |-> ErrNil]

\* a plausible slip: the query is limited to one row
GormFindFirst(dest, tbl, up) ==
    IF ~up THEN [users |-> dest, err |-> ErrConn]
    ELSE [users |-> Slice(IF tbl = <<>> THEN <<>> ELSE <<tbl[1]>>), err |-> ErrNil]

\* db.Find(&users): one SELECT statement; on success the destination is
\* replaced by a fresh slice holding every row, on failure it is left alone
GormFind(dest, tbl, up) ==
    IF ~up THEN [users |-> dest, err |-> ErrConn]
    ELSE [users |-> Slice(tbl), err |-> ErrNil]

----------------------------------------------------------------------------
(* repository *)

\* a plausible slip: the .Error of the insert is dropped
RepoCreateUserSwallow(u, tbl, nid, up, t) ==
    [GormCreate(u, tbl, nid, up, t) EXCEPT !.err = ErrNil]

\* userRepository.CreateUser
RepoCreateUser(u, tbl, nid, up, t) == GormCreate(u, tbl, nid, up, t)

\* a plausible slip: the query stamps the rows it reads
TableAfterFindTouching(tbl, up, t) ==
    IF up THEN [i \in DOMAIN tbl |-> [tbl[i] EXCEPT !.UpdatedAt = t]] ELSE tbl

\* the table after r.db.Find: a SELECT writes nothing
TableAfterFind(tbl, up, t) == tbl

\* userRepository.GetAllUsers: var users []domain.User starts as the nil slice
RepoGetAllUsers(tbl, up) == GormFind(NilSlice, tbl, up)

----------------------------------------------------------------------------
(* service *)

\* a plausible slip: the service stamps the user itself
NewUserStamped(nombre, apellido, email, reparto) ==
    [ID |-> 0,
     Nombre |-> TrimSpace(nombre),
     Apellido |-> TrimSpace(apellido),
     Email |-> ToLower(TrimSpace(email)),
     Reparto |-> TrimSpace(reparto),
     CreatedAt |-> 1,
     UpdatedAt |-> 1]

\* the domain.User literal built by userService.CreateUser
NewUser(nombre, apellido, email, reparto) ==
    [ID |-> 0,
     Nombre |-> TrimSpace(nombre),
     Apellido |-> TrimSpace(apellido),
     Email |-> ToLower(TrimSpace(email)),
     Reparto |-> TrimSpace(reparto),
     CreatedAt |-> ZeroTime,
     UpdatedAt |-> ZeroTime]

ErrWrapped == "crear usuario: error de repositorio"

\* a plausible slip: the repository's error is replaced by the service's own
CreateUserErrWrap(repoErr) == IF repoErr # ErrNil THEN ErrWrapped ELSE ErrNil

\* if err := s.repo.CreateUser(u); err != nil { return err }; return nil
CreateUserErr(repoErr) == IF repoErr # ErrNil THEN repoErr ELSE ErrNil

\* the calls of s.repo.CreateUser made by one userService.CreateUser, in
\* order, each with what it returned: one call, whatever it returns
CreateUserAttempts(u, tbl, nid, up, t) == <<RepoCreateUser(u, tbl, nid, up, t)>>

\* a plausible slip: the email is checked again in the service
SvcCreateUserValidating(nombre, apellido, email, reparto, tbl, nid, up, t) ==
    LET u == NewUser(nombre, apellido, email, reparto)
        r == CreateUserAttempts(u, tbl, nid, up, t)
    IN IF \A i \in DOMAIN u.Email : u.Email[i] # "@"
       THEN [err |-> "email invalido", arg |-> u,
             repo |-> [err |-> ErrNil, users |-> tbl, nextId |-> nid], calls |-> 0]
       ELSE [err |-> CreateUserErr(r[Len(r)].err), arg |-> u, repo |-> r[Len(r)],
             calls |-> Len(r)]

\* userService.CreateUser; calls counts the calls of the repository
SvcCreateUser(nombre, apellido, email, reparto, tbl, nid, up, t) ==
    LET u == NewUser(nombre, apellido, email, reparto)
        r == CreateUserAttempts(u, tbl, nid, up, t)
    IN [err |-> CreateUserErr(r[Len(r)].err), arg |-> u, repo |-> r[Len(r)],
        calls |-> Len(r)]

\* a plausible slip: a failed query is run once more
GetAllUsersAttemptsRetry(tbl, up) ==
    IF RepoGetAllUsers(tbl, up).err # ErrNil
    THEN <<RepoGetAllUsers(tbl, up), RepoGetAllUsers(tbl, up)>>
    ELSE <<RepoGetAllUsers(tbl, up)>>

\* the calls of s.repo.GetAllUsers made by one userService.GetAllUsers
GetAllUsersAttempts(tbl, up) == <<RepoGetAllUsers(tbl, up)>>

\* userService.GetAllUsers
SvcGetAllUsers(tbl, up) == GetAllUsersAttempts(tbl, up)[Len(GetAllUsersAttempts(tbl, up))]

\* the statements the store ran for n calls of the repository
Statements(n, stmt) == [i \in 1..n |-> stmt]

----------------------------------------------------------------------------
(* HTTP handler *)

\* a JSON value written as a response body
NoBody == [kind |-> "empty", key |-> "", value |-> <<>>, items |-> <<>>]
JSONNull == [kind |-> "null", key |-> "", value |-> <<>>, items |-> <<>>]
\* gin.H with one key; the value is the text, one line per element
JSONObject(k, v) == [kind |-> "object", key |-> k, value |-> v, items |-> <<>>]
JSONArray(objs) == [kind |-> "array", key |-> "", value |-> <<>>, items |-> objs]

\* a plausible slip: the json tags of two fields are exchanged
MarshalUserSwappedTags(u) ==
    [id |-> u.ID, nombre |-> u.Apellido, apellido |-> u.Nombre, email |-> u.Email,
     reparto |-> u.Reparto, created_at |-> u.CreatedAt, updated_at |-> u.UpdatedAt]

\* encoding/json on a domain.User, by its json tags
MarshalUser(u) ==
    [id |-> u.ID, nombre |-> u.Nombre, apellido |-> u.Apellido, email |-> u.Email,
     reparto |-> u.Reparto, created_at |-> u.CreatedAt, updated_at |-> u.UpdatedAt]

\* encoding/json on a []domain.User: the nil slice encodes as null
MarshalUsers(sl) ==
    IF sl.isNil THEN JSONNull
    ELSE JSONArray([i \in DOMAIN sl.elems |-> MarshalUser(sl.elems[i])])

\* a request body: not JSON at all, or an object in which each of the four
\* keys is absent (<<>>) or holds a string (<<s>>)
\* extra holds the keys createUserRequest has no field for: none (<<>>) or
\* "id", "created_at" and "updated_at" with their values
MalformedBody ==
    [kind |-> "malformed", nombre |-> <<>>, apellido |-> <<>>, email |-> <<>>, reparto |-> <<>>,
     extra |-> <<>>]
ObjectBody(n, a, e, r) ==
    [kind |-> "object", nombre |-> n, apellido |-> a, email |-> e, reparto |-> r,
     extra |-> <<>>]

\* json.Unmarshal of one key into a string field: an absent key leaves ""
Field(opt) == IF opt = <<>> THEN <<>> ELSE opt[1]

\* a plausible slip: blanks are let through
IsEmailLax(s) ==
    /\ Cardinality({i \in DOMAIN s : s[i] = "@"}) = 1
    /\ s[1] # "@"
    /\ s[Len(s)] # "@"

\* the validator's "email" tag on the model's alphabet: one "@" with a
\* non-empty part on each side, and no blank anywhere
IsEmail(s) ==
    /\ Cardinality({i \in DOMAIN s : s[i] = "@"}) = 1
    /\ s[1] # "@"
    /\ s[Len(s)] # "@"
    /\ \A i \in DOMAIN s : ~IsSpace(s[i])

\* the text of one validation failure, as err.Error() names field and tag
RequiredMsg(f) ==
    CASE f = "Nombre" -> "Field validation for 'Nombre' failed on the 'required' tag"
      [] f = "Apellido" -> "Field validation for 'Apellido' failed on the 'required' tag"
      [] f = "Email" -> "Field validation for 'Email' failed on the 'required' tag"
      [] f = "Reparto" -> "Field validation for 'Reparto' failed on the 'required' tag"
EmailMsg(f) == "Field validation for 'Email' failed on the 'email' tag"

\* a plausible slip: the email tag is missing from the binding
ValidateNoEmailTag(r) ==
    (IF r.Nombre = <<>> THEN <<RequiredMsg("Nombre")>> ELSE <<>>)
    \o (IF r.Apellido = <<>> THEN <<RequiredMsg("Apellido")>> ELSE <<>>)
    \o (IF r.Email = <<>> THEN <<RequiredMsg("Email")>> ELSE <<>>)
    \o (IF r.Reparto = <<>> THEN <<RequiredMsg("Reparto")>> ELSE <<>>)

\* the binding tags of createUserRequest, field by field: "required" fails on
\* the zero value "", "email" is tried only when "required" passed
Validate(r) ==
    (IF r.Nombre = <<>> THEN <<RequiredMsg("Nombre")>> ELSE <<>>)
    \o (IF r.Apellido = <<>> THEN <<RequiredMsg("Apellido")>> ELSE <<>>)
    \o (IF r.Email = <<>> THEN <<RequiredMsg("Email")>>
        ELSE IF ~IsEmail(r.Email) THEN <<EmailMsg("Email")>> ELSE <<>>)
    \o (IF r.Reparto = <<>> THEN <<RequiredMsg("Reparto")>> ELSE <<>>)

SyntaxMsg == "invalid character looking for beginning of value"

\* c.ShouldBindJSON(&req): decode, then validate; err is <<>> for nil
ShouldBindJSON(body) ==
    LET r == [Nombre |-> Field(body.nombre), Apellido |-> Field(body.apellido),
              Email |-> Field(body.email), Reparto |-> Field(body.reparto)]
    IN IF body.kind = "malformed"
       THEN [err |-> <<SyntaxMsg>>, req |-> r]
       ELSE [err |-> Validate(r), req |-> r]

Response(st, b) == [status |-> st, body |-> b]

MsgCreateFailed == <<"no se pudo crear el usuario">>
MsgCreated == <<"usuario creado exitosamente">>
MsgListFailed == <<"no se pudo obtener usuarios">>

\* a plausible slip: a duplicate is reported as a conflict
CreateUserResponseConflict(err) ==
    IF err = ErrUnique THEN Response(409, JSONObject("error", <<err>>))
    ELSE IF err # ErrNil THEN Response(500, JSONObject("error", MsgCreateFailed))
    ELSE Response(201, JSONObject("message", MsgCreated))

\* UserHandler.CreateUser after a successful bind: the response for the
\* error the service returned
CreateUserResponse(err) ==
    IF err # ErrNil THEN Response(500, JSONObject("error", MsgCreateFailed))
    ELSE Response(201, JSONObject("message", MsgCreated))

\* UserHandler.ListUsers: the response for what the service returned
ListUsersResponse(sl, err) ==
    IF err # ErrNil THEN Response(500, JSONObject("error", MsgListFailed))
    ELSE Response(200, MarshalUsers(sl))

\* gin.Default()'s Recovery middleware: a panic in a handler is answered 500
RecoveryResponse == Response(500, NoBody)

\* a plausible slip: gin.New() with no middleware, and the panic is fatal
RecoveredNot(p) == "panicked"

\* where the process is after the Recovery middleware has caught a panic
\* raised with the process at p: where it was
Recovered(p) == p

\* a plausible slip: the health route pings the database
HealthResponsePing(up) ==
    IF up THEN Response(200, JSONObject("status", <<"ok">>))
    ELSE Response(503, JSONObject("status", <<"down">>))

\* the /health route of NewServer; it is handed the state of the database
\* only to show that it does not look at it
HealthResponse(up) == Response(200, JSONObject("status", <<"ok">>))

\* a plausible slip: the return after the 500 is missing
CreateUserWritesNoReturn(bindErr, nilSvc, err) ==
    IF bindErr # <<>> THEN <<Response(400, JSONObject("error", bindErr))>>
    ELSE IF nilSvc THEN <<RecoveryResponse>>
    ELSE IF err # ErrNil
    THEN <<Response(500, JSONObject("error", MsgCreateFailed)),
           Response(201, JSONObject("message", MsgCreated))>>
    ELSE <<Response(201, JSONObject("message", MsgCreated))>>

\* UserHandler.CreateUser: the c.JSON calls it makes, in order; each is
\* followed by a return. A nil service panics before any call and the
\* Recovery middleware writes the response
CreateUserWrites(bindErr, nilSvc, err) ==
    IF bindErr # <<>> THEN <<Response(400, JSONObject("error", bindErr))>>
    ELSE IF nilSvc THEN <<RecoveryResponse>>
    ELSE <<CreateUserResponse(err)>>

\* a plausible slip: the return after the 500 is missing
ListUsersWritesNoReturn(nilSvc, sl, err) ==
    IF nilSvc THEN <<RecoveryResponse>>
    ELSE IF err # ErrNil
    THEN <<Response(500, JSONObject("error", MsgListFailed)), Response(200, MarshalUsers(sl))>>
    ELSE <<Response(200, MarshalUsers(sl))>>

\* UserHandler.ListUsers: the c.JSON calls it makes, in order
ListUsersWrites(nilSvc, sl, err) ==
    IF nilSvc THEN <<RecoveryResponse>>
    ELSE <<ListUsersResponse(sl, err)>>

----------------------------------------------------------------------------
(* Logger *)

\* the package variables infoLogger and errorLogger before any assignment
NilLoggers == [info |-> FALSE, error |-> FALSE]
\* a plausible slip: errorLogger is not assigned
LoggerInitInfoOnly == [info |-> TRUE, error |-> FALSE]

\* logger.Init: both loggers are created
LoggerInit == [info |-> TRUE, error |-> TRUE]

NoOutput == [stdout |-> <<>>, stderr |-> <<>>]
\* one line of output: the prefix of the logger, the method that wrote it
\* (Printf formats msg with args, Println writes msg as it is) and its operands
Line(prefix, method, msg, args) ==
    [prefix |-> prefix, method |-> method, msg |-> msg, args |-> args]

\* logger.Info: a method call on the nil *log.Logger dereferences nil
LoggerInfo(lgs, o, msg, args) ==
    IF ~lgs.info THEN [panic |-> TRUE, out |-> o]
    ELSE [panic |-> FALSE,
          out |-> [o EXCEPT !.stdout =
                      Append(@, Line("INFO: ", IF Len(args) > 0 THEN "Printf" ELSE "Println",
                                     msg, args))]]

\* logger.Error
LoggerError(lgs, o, msg, args) ==
    IF ~lgs.error THEN [panic |-> TRUE, out |-> o]
    ELSE [panic |-> FALSE,
          out |-> [o EXCEPT !.stderr =
                      Append(@, Line("[ERROR] ", IF Len(args) > 0 THEN "Printf" ELSE "Println",
                                     msg, args))]]

----------------------------------------------------------------------------
(* Configuration *)

Keys == {"APP_ENV", "HTTP_PORT", "DATABASE_DSN"}
DefaultEnv == "dev"
DefaultPort == "8080"
DefaultDSN == "user:password@tcp(localhost:3306)/dbname"

\* an environment maps each key to <<>> (unset) or <<v>> (set to v, "" included)
\* os.LookupEnv
LookupEnv(env, key) ==
    [val |-> IF env[key] = <<>> THEN "" ELSE env[key][1], ok |-> env[key] # <<>>]

\* a plausible slip: os.Getenv, which cannot tell unset from empty
getEnvEmptyIsUnset(env, key, def) ==
    IF LookupEnv(env, key).val # "" THEN LookupEnv(env, key).val ELSE def

getEnv(env, key, def) ==
    IF LookupEnv(env, key).ok THEN LookupEnv(env, key).val ELSE def

\* godotenv.Load(): every key of the .env file that the process environment
\* does not hold yet is set from the file; a missing file defines no key
GodotenvLoad(env, file) ==
    [k \in Keys |-> IF env[k] # <<>> THEN env[k] ELSE file[k]]

NoConfig == [Env |-> "", HttpPort |-> "", DatabaseDSN |-> "", loaded |-> FALSE]

\* config.Load: the configuration and the environment it leaves behind
Load(env, file) ==
    LET e == GodotenvLoad(env, file)
    IN [cfg |-> [Env |-> getEnv(e, "APP_ENV", DefaultEnv),
                 HttpPort |-> getEnv(e, "HTTP_PORT", DefaultPort),
                 DatabaseDSN |-> getEnv(e, "DATABASE_DSN", DefaultDSN),
                 loaded |-> TRUE],
        env |-> e]

\* config.MustLoad: Load, then one line on the standard logger (stderr)
MustLoad(env, file, o) ==
    LET l == Load(env, file)
    IN [cfg |-> l.cfg, env |-> l.env,
        out |-> [o EXCEPT !.stderr =
                    Append(@, Line("", "Printf", "[config] env=%s port=%s db=%s\n",
                                   <<l.cfg.Env, l.cfg.HttpPort, l.cfg.DatabaseDSN>>))]]

----------------------------------------------------------------------------
(* Database *)

NoDatabase == [open |-> FALSE, migrated |-> FALSE]
\* what gorm.Open and AutoMigrate may do
DbOutcomes == {"ok", "openFails", "migrateFails"}

\* a plausible slip: the failures are logged and the connection is returned
NewDatabaseNoPanic(c, lgs, o, outcome) ==
    IF outcome = "openFails"
    THEN [panic |-> LoggerError(lgs, o, "error al conectar la Base de Datos: %v", <<"err">>).panic,
          db |-> NoDatabase,
          out |-> LoggerError(lgs, o, "error al conectar la Base de Datos: %v", <<"err">>).out]
    ELSE IF outcome = "migrateFails"
    THEN [panic |-> LoggerError(lgs, o, "error al migrar la Base de Datos: %v", <<"err">>).panic,
          db |-> [open |-> TRUE, migrated |-> FALSE],
          out |-> LoggerError(lgs, o, "error al migrar la Base de Datos: %v", <<"err">>).out]
    ELSE [panic |-> LoggerInfo(lgs, o, "Base de datos inicializada correctamente", <<>>).panic,
          db |-> [open |-> TRUE, migrated |-> TRUE],
          out |-> LoggerInfo(lgs, o, "Base de datos inicializada correctamente", <<>>).out]

\* db.NewDatabase: open, migrate the users table, log; either failure is
\* logged and panics
NewDatabase(c, lgs, o, outcome) ==
    IF outcome = "openFails"
    THEN [panic |-> TRUE,
          db |-> NoDatabase,
          out |-> LoggerError(lgs, o, "error al conectar la Base de Datos: %v", <<"err">>).out]
    ELSE IF outcome = "migrateFails"
    THEN [panic |-> TRUE,
          db |-> [open |-> TRUE, migrated |-> FALSE],
          out |-> LoggerError(lgs, o, "error al migrar la Base de Datos: %v", <<"err">>).out]
    ELSE [panic |-> LoggerInfo(lgs, o, "Base de datos inicializada correctamente", <<>>).panic,
          db |-> [open |-> TRUE, migrated |-> TRUE],
          out |-> LoggerInfo(lgs, o, "Base de datos inicializada correctamente", <<>>).out]

\* Server.Run up to the call of engine.Run: the address, and the line logged
ServerRun(c, lgs, o) ==
    [addr |-> <<":", c.HttpPort>>,
     panic |-> LoggerInfo(lgs, o, "escuchando en %s", << <<":", c.HttpPort>> >>).panic,
     out |-> LoggerInfo(lgs, o, "escuchando en %s", << <<":", c.HttpPort>> >>).out]

----------------------------------------------------------------------------
(* Inputs *)

NombreIn == {<<" ">>, Pad(MaxPad) \o <<"J", " ", "b">> \o Pad(MaxPad)}
ApellidoIn == {<<"\t", "P">>}
RepartoIn == {<<"I", "T", " ">>}
EmailIn ==
    Padded({<<"A", "@", "a">>}) \cup {<<"a", "@", "a">>, <<"b", "@", "a">>, <<"a">>}

\* what a direct caller of the service may pass: the empty string as well
WithEmpty(S) == S \cup {<<>>}
SvcEmailIn == Padded({<<"A", "@", "a">>}) \cup {<<"a", "@", "a">>, <<"b">>}

\* the payloads with all four keys present
FullBodies ==
    { ObjectBody(<<n>>, <<a>>, <<e>>, <<r>>) :
        n \in NombreIn, a \in ApellidoIn, e \in EmailIn, r \in RepartoIn }

\* a payload that passes validation, and the same with one key left out
\* (<<>>) or holding the empty string (<< <<>> >>)
BaseBody ==
    ObjectBody(<<Pad(MaxPad) \o <<"J", " ", "b">> \o Pad(MaxPad)>>, <<<<"\t", "P">>>>,
               <<<<"b", "@", "a">>>>, <<<<"I", "T", " ">>>>)
DefectBodies ==
    { [BaseBody EXCEPT ![k] = v] :
        k \in {"nombre", "apellido", "email", "reparto"}, v \in {<<>>, << <<>> >>} }

\* a payload that also names an id and timestamps no store would assign
ExtraBody == [BaseBody EXCEPT !.extra = <<[id |-> 9, created_at |-> 9, updated_at |-> 9]>>]

Bodies == {MalformedBody, ExtraBody} \cup FullBodies \cup DefectBodies
----------------------------------------------------------------------------
(* State *)

NoRequest == [kind |-> "none", body |-> MalformedBody, args |-> <<>>]
NoResponse == Response(0, NoBody)
\* creates/lists count the calls made while handling the operation
NoSvcCall == [creates |-> 0, lists |-> 0, args |-> <<>>, err |-> ErrNil, users |-> NilSlice]
NoRepoCall == [creates |-> 0, lists |-> 0, arg |-> <<>>, err |-> ErrNil, users |-> NilSlice]

\* the environment with no key set, and a missing or empty .env file
NoEnv == [k \in Keys |-> <<>>]

\* the connections the server can handle at once
Conns == {"c1", "c2"}
IdleConn == [st |-> "idle", body |-> MalformedBody, args |-> <<>>, err |-> ErrNil,
             resp |-> NoResponse]
NoConns == [c \in Conns |-> IdleConn]

\* the variables of the request handlers and the service
reqVars == <<users, nextId, dbUp, now, svcNil, req, resp, svcRet, repoRet, dbOps, acked, writes>>

\* main has run up to engine.Run with nothing set in the environment
Listening ==
    LET l == MustLoad(NoEnv, NoEnv, NoOutput)
        d == NewDatabase(l.cfg, LoggerInit, l.out, "ok")
        r == ServerRun(l.cfg, LoggerInit, d.out)
    IN /\ pc = "listening"
       /\ osEnv = l.env
       /\ dotenv = NoEnv
       /\ cfg = l.cfg
       /\ loggers = LoggerInit
       /\ out = r.out
       /\ dbConn = d.db
       /\ conns = NoConns

\* main: the table exists and is empty, the handler holds the real service
Init ==
    /\ users = <<>>
    /\ nextId = 1
    /\ dbUp = TRUE
    /\ now = 1
    /\ svcNil = FALSE
    /\ req = NoRequest
    /\ resp = NoResponse
    /\ svcRet = NoSvcCall
    /\ repoRet = NoRepoCall
    /\ dbOps = <<>>
    /\ acked = {}
    /\ writes = <<>>
    /\ Listening

\* NewServer given a handler built around any service value, nil included
InitAnyHandler ==
    /\ users = <<>>
    /\ nextId = 1
    /\ dbUp = TRUE
    /\ now = 1
    /\ svcNil \in BOOLEAN
    /\ req = NoRequest
    /\ resp = NoResponse
    /\ svcRet = NoSvcCall
    /\ repoRet = NoRepoCall
    /\ dbOps = <<>>
    /\ acked = {}
    /\ writes = <<>>
    /\ Listening

----------------------------------------------------------------------------
(* Service calls *)

\* userService.CreateUser called by any caller
CallCreateUser(nombre, apellido, email, reparto) ==
    LET s == SvcCreateUser(nombre, apellido, email, reparto, users, nextId, dbUp, now)
    IN /\ req' = [kind |-> "createUser", body |-> MalformedBody,
                  args |-> <<nombre, apellido, email, reparto>>]
       /\ users' = s.repo.users
       /\ nextId' = s.repo.nextId
       /\ svcRet' = [creates |-> 1, lists |-> 0, args |-> <<nombre, apellido, email, reparto>>,
                     err |-> s.err, users |-> NilSlice]
       /\ repoRet' = [creates |-> s.calls, lists |-> 0,
                      arg |-> IF s.calls = 0 THEN <<>> ELSE <<s.arg>>,
                      err |-> s.repo.err, users |-> NilSlice]
       /\ dbOps' = Statements(s.calls, "INSERT")
       /\ UNCHANGED <<dbUp, now, svcNil, resp, acked, writes>>
       /\ UNCHANGED auxVars

\* userService.GetAllUsers called by any caller
CallGetAllUsers ==
    LET a == GetAllUsersAttempts(users, dbUp)
        r == a[Len(a)]
        s == SvcGetAllUsers(users, dbUp)
    IN /\ req' = [kind |-> "listUsers", body |-> MalformedBody, args |-> <<>>]
       /\ svcRet' = [creates |-> 0, lists |-> 1, args |-> <<>>, err |-> s.err, users |-> s.users]
       /\ repoRet' = [creates |-> 0, lists |-> Len(a), arg |-> <<>>, err |-> r.err,
                      users |-> r.users]
       /\ dbOps' = Statements(Len(a), "SELECT")
       /\ users' = TableAfterFind(users, dbUp, now)
       /\ UNCHANGED <<nextId, dbUp, now, svcNil, resp, acked, writes>>
       /\ UNCHANGED auxVars

\* userService.CreateUser called with the four text fields of stored row i
CallCreateUserOfStored(i) ==
    /\ i \in DOMAIN users
    /\ CallCreateUser(users[i].Nombre, users[i].Apellido, users[i].Email, users[i].Reparto)

----------------------------------------------------------------------------
(* Requests *)

\* POST /api/v1/usuarios: UserHandler.CreateUser
PostUsuarios(body) ==
    LET b == ShouldBindJSON(body)
        s == SvcCreateUser(b.req.Nombre, b.req.Apellido, b.req.Email, b.req.Reparto,
                           users, nextId, dbUp, now)
        args == <<b.req.Nombre, b.req.Apellido, b.req.Email, b.req.Reparto>>
        w == CreateUserWrites(b.err, svcNil, s.err)
    IN /\ pc = "listening"
       /\ req' = [kind |-> "POST", body |-> body, args |-> <<>>]
       /\ writes' = w
       /\ resp' = w[1]
       /\ pc' = IF b.err = <<>> /\ svcNil THEN Recovered(pc) ELSE pc
       /\ IF b.err # <<>>
          THEN /\ svcRet' = NoSvcCall
               /\ repoRet' = NoRepoCall
               /\ dbOps' = <<>>
               /\ UNCHANGED <<users, nextId, acked>>
          ELSE IF svcNil
          THEN \* h.svc.CreateUser on the nil interface panics
               /\ svcRet' = NoSvcCall
               /\ repoRet' = NoRepoCall
               /\ dbOps' = <<>>
               /\ UNCHANGED <<users, nextId, acked>>
          ELSE /\ svcRet' = [creates |-> 1, lists |-> 0, args |-> args,
                             err |-> s.err, users |-> NilSlice]
               /\ repoRet' = [creates |-> s.calls, lists |-> 0,
                              arg |-> IF s.calls = 0 THEN <<>> ELSE <<s.arg>>,
                              err |-> s.repo.err, users |-> NilSlice]
               /\ dbOps' = Statements(s.calls, "INSERT")
               /\ users' = s.repo.users
               /\ nextId' = s.repo.nextId
               /\ acked' = IF CreateUserResponse(s.err).status = 201
                           THEN acked \cup {args} ELSE acked
       /\ UNCHANGED <<dbUp, now, svcNil>>
       /\ UNCHANGED envVars

\* GET /api/v1/usuarios: UserHandler.ListUsers
GetUsuarios ==
    LET a == GetAllUsersAttempts(users, dbUp)
        r == a[Len(a)]
        s == SvcGetAllUsers(users, dbUp)
        w == ListUsersWrites(svcNil, s.users, s.err)
    IN /\ pc = "listening"
       /\ req' = [kind |-> "GET", body |-> MalformedBody, args |-> <<>>]
       /\ writes' = w
       /\ resp' = w[1]
       /\ pc' = IF svcNil THEN Recovered(pc) ELSE pc
       /\ IF svcNil
          THEN \* h.svc.GetAllUsers on the nil interface panics
               /\ svcRet' = NoSvcCall
               /\ repoRet' = NoRepoCall
               /\ dbOps' = <<>>
          ELSE /\ svcRet' = [creates |-> 0, lists |-> 1, args |-> <<>>,
                             err |-> s.err, users |-> s.users]
               /\ repoRet' = [creates |-> 0, lists |-> Len(a), arg |-> <<>>,
                              err |-> r.err, users |-> r.users]
               /\ dbOps' = Statements(Len(a), "SELECT")
       /\ users' = IF svcNil THEN users ELSE TableAfterFind(users, dbUp, now)
       /\ UNCHANGED <<nextId, dbUp, now, svcNil, acked>>
       /\ UNCHANGED envVars

\* GET /health: the closure registered by NewServer
GetHealth ==
    /\ pc = "listening"
    /\ req' = [kind |-> "HEALTH", body |-> MalformedBody, args |-> <<>>]
    /\ resp' = HealthResponse(dbUp)
    /\ writes' = <<HealthResponse(dbUp)>>
    /\ svcRet' = NoSvcCall
    /\ repoRet' = NoRepoCall
    /\ dbOps' = <<>>
    /\ UNCHANGED <<users, nextId, dbUp, now, svcNil, acked>>
    /\ UNCHANGED auxVars

----------------------------------------------------------------------------
(* Environment *)

\* the database stops answering
DbFail ==
    /\ dbUp
    /\ dbUp' = FALSE
    /\ UNCHANGED <<users, nextId, now, svcNil, req, resp, svcRet, repoRet, dbOps, acked, writes>>
    /\ UNCHANGED auxVars

\* the database answers again
DbRecover ==
    /\ ~dbUp
    /\ dbUp' = TRUE
    /\ UNCHANGED <<users, nextId, now, svcNil, req, resp, svcRet, repoRet, dbOps, acked, writes>>
    /\ UNCHANGED auxVars

\* time passes
Tick ==
    /\ now < MaxTime
    /\ now' = now + 1
    /\ UNCHANGED <<users, nextId, dbUp, svcNil, req, resp, svcRet, repoRet, dbOps, acked, writes>>
    /\ UNCHANGED auxVars

----------------------------------------------------------------------------
(* main *)

\* the environments and .env files main is started with
MainEnvIn == {NoEnv, [NoEnv EXCEPT !["HTTP_PORT"] = <<"9090">>]}
MainDotenvIn == {NoEnv, [NoEnv EXCEPT !["APP_ENV"] = <<"prod">>]}
MainBodies == {MalformedBody, BaseBody}

\* the process at the first statement of main: nothing is built yet
InitMain ==
    /\ users = <<>>
    /\ nextId = 1
    /\ dbUp = TRUE
    /\ now = 1
    /\ svcNil = TRUE
    /\ req = NoRequest
    /\ resp = NoResponse
    /\ svcRet = NoSvcCall
    /\ repoRet = NoRepoCall
    /\ dbOps = <<>>
    /\ acked = {}
    /\ writes = <<>>
    /\ pc = "start"
    /\ osEnv \in MainEnvIn
    /\ dotenv \in MainDotenvIn
    /\ cfg = NoConfig
    /\ loggers = NilLoggers
    /\ out = NoOutput
    /\ dbConn = NoDatabase
    /\ conns = NoConns

\* logger.Init()
MainLoggerInit ==
    /\ pc = "start"
    /\ loggers' = LoggerInit
    /\ pc' = "inited"
    /\ UNCHANGED <<osEnv, dotenv, cfg, out, dbConn, conns>>
    /\ UNCHANGED reqVars

\* cfg := config.MustLoad()
MainMustLoad ==
    LET l == MustLoad(osEnv, dotenv, out)
    IN /\ pc = "inited"
       /\ cfg' = l.cfg
       /\ osEnv' = l.env
       /\ out' = l.out
       /\ pc' = "loaded"
       /\ UNCHANGED <<dotenv, loggers, dbConn, conns>>
       /\ UNCHANGED reqVars

\* dbConn := db.NewDatabase(cfg); a panic ends the process
MainNewDatabase(outcome) ==
    LET d == NewDatabase(cfg, loggers, out, outcome)
    IN /\ pc = "loaded"
       /\ dbConn' = d.db
       /\ out' = d.out
       /\ pc' = IF d.panic THEN "panicked" ELSE "db"
       /\ UNCHANGED <<osEnv, dotenv, cfg, loggers, conns>>
       /\ UNCHANGED reqVars

\* the repository, the service, the handler and the server are built
MainNewServer ==
    /\ pc = "db"
    /\ svcNil' = FALSE
    /\ pc' = "server"
    /\ UNCHANGED <<users, nextId, dbUp, now, req, resp, svcRet, repoRet, dbOps, acked, writes>>
    /\ UNCHANGED <<osEnv, dotenv, cfg, loggers, out, dbConn, conns>>

\* server.Run(): engine.Run binds the port and serves
MainRun ==
    LET r == ServerRun(cfg, loggers, out)
    IN /\ pc = "server"
       /\ out' = r.out
       /\ pc' = IF r.panic THEN "panicked" ELSE "listening"
       /\ UNCHANGED <<osEnv, dotenv, cfg, loggers, dbConn, conns>>
       /\ UNCHANGED reqVars

\* a plausible slip: the error of Run is logged and then panics
MainAfterRunErrorPanics(lgs, o) ==
    [pc |-> "panicked",
     out |-> LoggerError(lgs, o, "error al iniciar servidor: %v", <<"err">>).out]

\* main after server.Run() returned an error: the error is logged and main
\* returns
MainAfterRunError(lgs, o) ==
    [pc |-> IF LoggerError(lgs, o, "error al iniciar servidor: %v", <<"err">>).panic
            THEN "panicked" ELSE "exited",
     out |-> LoggerError(lgs, o, "error al iniciar servidor: %v", <<"err">>).out]

\* server.Run(): engine.Run cannot listen and returns an error
MainRunFails ==
    LET r == ServerRun(cfg, loggers, out)
        e == MainAfterRunError(loggers, r.out)
    IN /\ pc = "server"
       /\ out' = e.out
       /\ pc' = IF r.panic THEN "panicked" ELSE e.pc
       /\ UNCHANGED <<osEnv, dotenv, cfg, loggers, dbConn, conns>>
       /\ UNCHANGED reqVars

\* server.Run(): engine.Run returns an error after it has served
MainRunReturns ==
    LET e == MainAfterRunError(loggers, out)
    IN /\ pc = "listening"
       /\ out' = e.out
       /\ pc' = e.pc
       /\ UNCHANGED <<osEnv, dotenv, cfg, loggers, dbConn, conns>>
       /\ UNCHANGED reqVars

----------------------------------------------------------------------------
(* Concurrent requests *)

\* the emails of the POSTs handled at the same time
ConcEmailIn == Padded({<<"A", "@", "a">>}) \cup {<<"a", "@", "a">>, <<"b", "@", "a">>}
ConcBodies == { [BaseBody EXCEPT !.email = <<e>>] : e \in ConcEmailIn }

\* UserHandler.CreateUser on connection c up to the service call: the bind,
\* and the 400 and the return when it fails
ConnBind(c, body) ==
    LET b == ShouldBindJSON(body)
    IN /\ conns[c].st = "idle"
       /\ conns' = [conns EXCEPT ![c] =
                       IF b.err # <<>>
                       THEN [st |-> "done", body |-> body, args |-> <<>>, err |-> ErrNil,
                             resp |-> CreateUserWrites(b.err, svcNil, ErrNil)[1]]
                       ELSE [st |-> "bound", body |-> body,
                             args |-> <<b.req.Nombre, b.req.Apellido, b.req.Email, b.req.Reparto>>,
                             err |-> ErrNil, resp |-> NoResponse]]
       /\ UNCHANGED <<pc, osEnv, dotenv, cfg, loggers, out, dbConn>>
       /\ UNCHANGED reqVars

\* h.svc.CreateUser on connection c: the store runs the INSERT of one
\* connection at a time
ConnCreate(c) ==
    LET a == conns[c].args
        s == SvcCreateUser(a[1], a[2], a[3], a[4], users, nextId, dbUp, now)
    IN /\ conns[c].st = "bound"
       /\ ~svcNil
       /\ users' = s.repo.users
       /\ nextId' = s.repo.nextId
       /\ conns' = [conns EXCEPT ![c].st = "created", ![c].err = s.err]
       /\ UNCHANGED <<dbUp, now, svcNil, req, resp, svcRet, repoRet, dbOps, acked, writes>>
       /\ UNCHANGED <<pc, osEnv, dotenv, cfg, loggers, out, dbConn>>

\* the response of connection c for the error the service returned
ConnRespond(c) ==
    /\ conns[c].st = "created"
    /\ conns' = [conns EXCEPT ![c].st = "done",
                              ![c].resp = CreateUserWrites(<<>>, svcNil, conns[c].err)[1]]
    /\ UNCHANGED <<pc, osEnv, dotenv, cfg, loggers, out, dbConn>>
    /\ UNCHANGED reqVars

----------------------------------------------------------------------------
(* Configuration and logger calls *)

\* what a key may hold in the process environment and in the .env file:
\* nothing, the empty string, or a value that is not the default
EnvIn == [Keys -> {<<>>, <<"">>, <<"x">>}]
DotenvIn == [Keys -> {<<>>, <<"">>, <<"y">>}]

\* a process about to call config.Load
InitConfig ==
    /\ users = <<>>
    /\ nextId = 1
    /\ dbUp = TRUE
    /\ now = 1
    /\ svcNil = TRUE
    /\ req = NoRequest
    /\ resp = NoResponse
    /\ svcRet = NoSvcCall
    /\ repoRet = NoRepoCall
    /\ dbOps = <<>>
    /\ acked = {}
    /\ writes = <<>>
    /\ pc = "start"
    /\ osEnv \in EnvIn
    /\ dotenv \in DotenvIn
    /\ cfg = NoConfig
    /\ loggers = NilLoggers
    /\ out = NoOutput
    /\ dbConn = NoDatabase
    /\ conns = NoConns

\* config.Load called once
CallLoad ==
    /\ ~cfg.loaded
    /\ cfg' = Load(osEnv, dotenv).cfg
    /\ osEnv' = Load(osEnv, dotenv).env
    /\ UNCHANGED <<pc, dotenv, loggers, out, dbConn, conns>>
    /\ UNCHANGED reqVars

\* the messages and arguments passed to the logger
LogIn == {<<"m", <<>>>>, <<"m %v", <<"a">>>>, <<"m %v %v", <<"a", "b">>>>}
LinesWritten == Len(out.stdout) + Len(out.stderr)

\* a process that has imported the logger package and called nothing yet
InitLogger ==
    /\ users = <<>>
    /\ nextId = 1
    /\ dbUp = TRUE
    /\ now = 1
    /\ svcNil = TRUE
    /\ req = NoRequest
    /\ resp = NoResponse
    /\ svcRet = NoSvcCall
    /\ repoRet = NoRepoCall
    /\ dbOps = <<>>
    /\ acked = {}
    /\ writes = <<>>
    /\ pc = "start"
    /\ osEnv = NoEnv
    /\ dotenv = NoEnv
    /\ cfg = NoConfig
    /\ loggers = NilLoggers
    /\ out = NoOutput
    /\ dbConn = NoDatabase
    /\ conns = NoConns

\* logger.Init() called by any caller
CallLoggerInit ==
    /\ pc # "panicked"
    /\ loggers' = LoggerInit
    /\ UNCHANGED <<pc, osEnv, dotenv, cfg, out, dbConn, conns>>
    /\ UNCHANGED reqVars

\* logger.Info(msg, args...) called by any caller
CallLoggerInfo(msg, args) ==
    /\ pc # "panicked"
    /\ LinesWritten < MaxLog
    /\ out' = LoggerInfo(loggers, out, msg, args).out
    /\ pc' = IF LoggerInfo(loggers, out, msg, args).panic THEN "panicked" ELSE pc
    /\ UNCHANGED <<osEnv, dotenv, cfg, loggers, dbConn, conns>>
    /\ UNCHANGED reqVars

\* logger.Error(msg, args...) called by any caller
CallLoggerError(msg, args) ==
    /\ pc # "panicked"
    /\ LinesWritten < MaxLog
    /\ out' = LoggerError(loggers, out, msg, args).out
    /\ pc' = IF LoggerError(loggers, out, msg, args).panic THEN "panicked" ELSE pc
    /\ UNCHANGED <<osEnv, dotenv, cfg, loggers, dbConn, conns>>
    /\ UNCHANGED reqVars

----------------------------------------------------------------------------
(* Specifications *)

\* the running server
Next ==
    \/ \E body \in Bodies : PostUsuarios(body)
    \/ GetUsuarios
    \/ GetHealth
    \/ DbFail
    \/ DbRecover
    \/ Tick

Spec == Init /\ [][Next]_vars

\* the server built around any handler
SpecAnyHandler == InitAnyHandler /\ [][Next]_vars

\* the service used directly by any caller
NextService ==
    \/ \E n \in WithEmpty(NombreIn), a \in ApellidoIn, e \in SvcEmailIn, r \in RepartoIn :
         CallCreateUser(n, a, e, r)
    \/ CallGetAllUsers
    \/ DbFail
    \/ DbRecover
    \/ Tick

\* the process from the first statement of main on; requests are served
\* once engine.Run listens
NextMain ==
    \/ MainLoggerInit
    \/ MainMustLoad
    \/ \E outcome \in DbOutcomes : MainNewDatabase(outcome)
    \/ MainNewServer
    \/ MainRun
    \/ MainRunFails
    \/ MainRunReturns
    \/ pc = "listening" /\ \E body \in MainBodies : PostUsuarios(body)
    \/ pc = "listening" /\ GetUsuarios
    \/ pc = "listening" /\ GetHealth
    \/ pc = "listening" /\ DbFail
    \/ pc = "listening" /\ DbRecover

SpecMain == InitMain /\ [][NextMain]_vars

\* config.Load on any environment and .env file
NextConfig == CallLoad

SpecConfig == InitConfig /\ [][NextConfig]_vars

\* the logger package used by any caller, in any order
NextLogger ==
    \/ CallLoggerInit
    \/ \E l \in LogIn : CallLoggerInfo(l[1], l[2])
    \/ \E l \in LogIn : CallLoggerError(l[1], l[2])

SpecLogger == InitLogger /\ [][NextLogger]_vars

\* the server handling one POST on each connection, in any interleaving
NextConcurrent ==
    \/ \E c \in Conns, body \in ConcBodies : ConnBind(c, body)
    \/ \E c \in Conns : ConnCreate(c)
    \/ \E c \in Conns : ConnRespond(c)
    \/ DbFail
    \/ DbRecover

SpecConcurrent == Init /\ [][NextConcurrent]_vars

\* the service called by any caller, who may also submit what is stored
NextResubmit ==
    \/ \E n \in WithEmpty(NombreIn), a \in ApellidoIn, e \in SvcEmailIn, r \in RepartoIn :
         CallCreateUser(n, a, e, r)
    \/ \E i \in DOMAIN users : CallCreateUserOfStored(i)
    \/ CallGetAllUsers
    \/ DbFail
    \/ DbRecover
    \/ Tick

SpecResubmit == Init /\ [][NextResubmit]_vars

SpecService == Init /\ [][NextService]_vars

----------------------------------------------------------------------------
(* The vocabulary of the properties, stated without the code's operators *)

NonBlank(s) == { k \in DOMAIN s : s[k] \notin {" ", "\t"} }

\* s from its first to its last character that is not a blank
Core(s) ==
    IF NonBlank(s) = {} THEN <<>>
    ELSE LET lo == CHOOSE k \in NonBlank(s) : \A m \in NonBlank(s) : k <= m
             hi == CHOOSE k \in NonBlank(s) : \A m \in NonBlank(s) : k >= m
         IN SubSeq(s, lo, hi)

\* t is s without its surrounding blanks, the interior untouched
IsTrimOf(t, s) == t = Core(s)

UpperLower ==
    {<<"A", "a">>, <<"B", "b">>, <<"J", "j">>, <<"P", "p">>, <<"I", "i">>, <<"T", "t">>}

\* l is s with every upper-case letter replaced by its lower-case letter
IsLowerOf(l, s) ==
    /\ Len(l) = Len(s)
    /\ \A k \in DOMAIN s :
         IF \E p \in UpperLower : p[1] = s[k]
         THEN <<s[k], l[k]>> \in UpperLower
         ELSE l[k] = s[k]

\* m is the lower-cased, trimmed form of e
IsNormalizedEmailOf(m, e) == IsLowerOf(m, Core(e))

SameLetter(c, d) == c = d \/ <<c, d>> \in UpperLower \/ <<d, c>> \in UpperLower

\* e1 and e2 differ at most in letter case and surrounding blanks
SameNormalized(e1, e2) ==
    /\ Len(Core(e1)) = Len(Core(e2))
    /\ \A k \in DOMAIN Core(e1) : SameLetter(Core(e1)[k], Core(e2)[k])

LastRow == users[Len(users)]

----------------------------------------------------------------------------
(* Properties *)

\* C1: after a createUser call that succeeded, the inserted row holds the
\* trimmed nombre, apellido and reparto and the lower-cased, trimmed email
C1_InsertedRowIsNormalized ==
    (req.kind = "createUser" /\ svcRet.err = ErrNil) =>
        /\ Len(users) > 0
        /\ IsTrimOf(LastRow.Nombre, req.args[1])
        /\ IsTrimOf(LastRow.Apellido, req.args[2])
        /\ IsNormalizedEmailOf(LastRow.Email, req.args[3])
        /\ IsTrimOf(LastRow.Reparto, req.args[4])

\* a successful createUser whose nombre had blanks on both sides and whose
\* email had blanks and an upper-case letter
C1_Witness ==
    /\ req.kind = "createUser"
    /\ svcRet.err = ErrNil
    /\ req.args[1] = Pad(MaxPad) \o <<"J", " ", "b">> \o Pad(MaxPad)
    /\ req.args[3] = Pad(MaxPad) \o <<"A", "@", "a">> \o Pad(MaxPad)
    /\ LastRow.Email = <<"a", "@", "a">>

\* C2: no two persisted users have emails that are equal after trimming and
\* lower-casing
C2_EmailsUniqueNormalized ==
    \A i \in DOMAIN users, j \in DOMAIN users :
        i # j => ~SameNormalized(users[i].Email, users[j].Email)

\* two users are stored and a third create was turned down as a duplicate
C2_Witness ==
    /\ Len(users) >= 2
    /\ req.kind = "createUser"
    /\ repoRet.err = ErrUnique

\* C3: every persisted user has a non-zero id and no two share an id
C3_IdsNonZeroUnique ==
    /\ \A i \in DOMAIN users : users[i].ID # 0
    /\ \A i \in DOMAIN users, j \in DOMAIN users : i # j => users[i].ID # users[j].ID

\* two users were created over HTTP, with a failed create in between or after
C3_Witness ==
    /\ Len(users) >= 2
    /\ req.kind = "POST"
    /\ resp.status = 500

\* C4: a createUser call whose email differs from a stored user's email only
\* in letter case or surrounding blanks returns an error, a uniqueness
\* violation when the store answers, and leaves the table as it was
C4_DuplicateRejected ==
    [][ \A n \in WithEmpty(NombreIn), a \in ApellidoIn, e \in SvcEmailIn, r \in RepartoIn :
          ( /\ CallCreateUser(n, a, e, r)
            /\ \E i \in DOMAIN users : SameNormalized(users[i].Email, e) )
          => ( /\ svcRet'.err # ErrNil
               /\ dbUp => svcRet'.err = ErrUnique
               /\ users' = users
               /\ nextId' = nextId ) ]_vars

\* a create with " A@a " was turned down while "a@a" was stored
C4_Witness ==
    /\ req.kind = "createUser"
    /\ req.args[3] = Pad(MaxPad) \o <<"A", "@", "a">> \o Pad(MaxPad)
    /\ svcRet.err = ErrUnique
    /\ \E i \in DOMAIN users : users[i].Email = <<"a", "@", "a">>

\* the payload is not JSON, lacks a key or holds an empty string under it,
\* or its email fails the format check
InvalidBody(body) ==
    \/ body.kind = "malformed"
    \/ \E k \in {"nombre", "apellido", "email", "reparto"} : body[k] \in {<<>>, << <<>> >>}
    \/ ~IsEmail(body.email[1])

\* C5: a POST with an invalid payload is answered 400 and the table after
\* the request is the table before it
C5_InvalidPostRejected ==
    [][ \A body \in Bodies :
          (PostUsuarios(body) /\ InvalidBody(body))
          => (resp'.status = 400 /\ users' = users /\ nextId' = nextId) ]_vars

\* a POST whose email has no "@" was answered 400 while a user was stored
C5_Witness ==
    /\ req.kind = "POST"
    /\ req.body.email = << <<"a">> >>
    /\ resp.status = 400
    /\ Len(users) >= 1

\* C6: with no user stored and the query succeeding, GET is answered 200
\* with the empty array, not null, and listAll returned an empty slice and
\* no error
C6_EmptyListIsEmptyArray ==
    (req.kind = "GET" /\ users = <<>> /\ repoRet.err = ErrNil) =>
        /\ resp.status = 200
        /\ resp.body.kind = "array"
        /\ resp.body.items = <<>>
        /\ repoRet.lists = 1
        /\ repoRet.users.elems = <<>>
        /\ svcRet.err = ErrNil

\* a GET was answered on the empty table after the database had recovered
C6_Witness ==
    /\ req.kind = "GET"
    /\ users = <<>>
    /\ dbUp
    /\ resp.status = 200

\* item is the stored form of the submitted fields c
IsStoredFormOf(item, c) ==
    /\ IsTrimOf(item.nombre, c[1])
    /\ IsTrimOf(item.apellido, c[2])
    /\ IsNormalizedEmailOf(item.email, c[3])
    /\ IsTrimOf(item.reparto, c[4])

\* C7: a GET answered 200 lists, for every POST answered 201 before it, a
\* user with the normalized submitted values and an id no other listed user
\* has
C7_CreatedUsersListed ==
    (req.kind = "GET" /\ resp.status = 200) =>
        \A c \in acked :
            \E i \in DOMAIN resp.body.items :
                /\ IsStoredFormOf(resp.body.items[i], c)
                /\ \A j \in DOMAIN resp.body.items :
                     j # i => resp.body.items[j].id # resp.body.items[i].id

\* a GET answered 200 after two POSTs answered 201, one of them with
\* surrounding blanks and an upper-case email
C7_Witness ==
    /\ req.kind = "GET"
    /\ resp.status = 200
    /\ Cardinality(acked) = 2
    /\ \E c \in acked : c[3] = <<"A", "@", "a">> /\ c[1] # Core(c[1])

\* C8: GET /health is answered 200 {"status":"ok"} whatever the state of the
\* database and the handler's service, and runs no statement on the store
C8_HealthAlwaysOk ==
    (req.kind = "HEALTH") =>
        /\ resp = Response(200, JSONObject("status", <<"ok">>))
        /\ dbOps = <<>>
        /\ repoRet.creates = 0
        /\ repoRet.lists = 0

\* /health was answered with the database down and a nil service
C8_Witness ==
    /\ req.kind = "HEALTH"
    /\ ~dbUp
    /\ svcNil
    /\ resp.status = 200

\* C9: a validated POST whose create fails is answered 500 with the fixed
\* body, the same for a duplicate email and for an unreachable database
C9_PersistenceFailuresLookAlike ==
    (req.kind = "POST" /\ svcRet.creates = 1 /\ svcRet.err # ErrNil) =>
        resp = Response(500, JSONObject("error", <<"no se pudo crear el usuario">>))

\* a POST was turned down as a duplicate
C9_Witness ==
    /\ req.kind = "POST"
    /\ svcRet.err = ErrUnique
    /\ resp.status = 500

\* C10: createUser returns the very error the repository's create returned,
\* and listUsers the very pair the repository's listAll returned
C10_ErrorsPropagateUnchanged ==
    /\ svcRet.creates = 1 => (repoRet.creates = 1 /\ svcRet.err = repoRet.err)
    /\ svcRet.lists = 1 =>
         (repoRet.lists = 1 /\ svcRet.err = repoRet.err /\ svcRet.users = repoRet.users)

\* createUser returned the repository's connectivity error
C10_Witness ==
    /\ req.kind = "createUser"
    /\ repoRet.err = ErrConn
    /\ svcRet.err = ErrConn

----------------------------------------------------------------------------
(* Startup *)

MigratedDb == dbConn.open /\ dbConn.migrated

\* C11: a failure of gorm.Open or of AutoMigrate ends the process, which
\* never listens afterwards; main gets past NewDatabase, listens and serves
\* a request only with the connection open and the users table migrated.
C11_ListenerOnlyAfterMigration ==
    [][ /\ (pc = "loaded" /\ pc' # "loaded" /\ ~(dbConn'.open /\ dbConn'.migrated))
            => pc' = "panicked"
        /\ pc = "panicked" => pc' = "panicked"
        /\ pc' \in {"db", "server", "listening"} => (dbConn'.open /\ dbConn'.migrated)
        /\ req' # req => (pc = "listening" /\ MigratedDb) ]_vars

C11_Witness == pc = "panicked" /\ dbConn.open /\ ~dbConn.migrated /\ req = NoRequest

----------------------------------------------------------------------------
(* Rows *)

\* row r of the table after the step is row i of the table before it, with
\* the fields the application sets untouched
SameUser(a, b) ==
    /\ a.ID = b.ID
    /\ a.Nombre = b.Nombre
    /\ a.Apellido = b.Apellido
    /\ a.Email = b.Email
    /\ a.Reparto = b.Reparto

\* C12: a POST answered 201 adds exactly one row, whose id no other row
\* has; a POST answered otherwise is answered 400 or 500 and, like a GET,
\* leaves the number of rows as it was.
C12_OnlyCreatedAddsOneRow ==
    [][ /\ \A body \in Bodies :
              PostUsuarios(body) =>
                  IF resp'.status = 201
                  THEN /\ Len(users') = Len(users) + 1
                       /\ \A i \in 1..Len(users) : users'[i].ID # users'[Len(users')].ID
                  ELSE /\ resp'.status \in {400, 500}
                       /\ Len(users') = Len(users)
        /\ GetUsuarios => Len(users') = Len(users) ]_vars

\* a second user was created after a POST had failed and the list was read
C12_Witness ==
    /\ req.kind = "POST"
    /\ resp.status = 201
    /\ Len(users) = 2
    /\ users[1].ID # users[2].ID

\* C13: no step removes a stored row, moves it, or changes its id, nombre,
\* apellido, email or reparto.
C13_RowsOnlyAdded ==
    [][ /\ Len(users') >= Len(users)
        /\ \A i \in DOMAIN users : SameUser(users'[i], users[i]) ]_vars

\* with two users stored, a create with the email of one of them and other
\* names was refused by the store
C13_Witness ==
    /\ Len(users) = 2
    /\ req.kind = "POST"
    /\ resp.status = 500
    /\ repoRet.err = ErrUnique
    /\ \E i \in DOMAIN users :
          /\ users[i].Email = repoRet.arg[1].Email
          /\ users[i].Nombre # repoRet.arg[1].Nombre

\* C15: when the query succeeds, listUsers returns the rows of the table,
\* each once and each as stored, and the body of a GET answered 200 is the
\* array of the same rows with every field as stored.
C15_ListIsTheTable ==
    (req.kind = "GET" /\ svcRet.lists = 1 /\ svcRet.err = ErrNil) =>
        /\ svcRet.users.elems = users
        /\ resp.status = 200
        /\ resp.body.kind = "array"
        /\ Len(resp.body.items) = Len(users)
        /\ \A i \in DOMAIN users :
              /\ resp.body.items[i].id = users[i].ID
              /\ resp.body.items[i].nombre = users[i].Nombre
              /\ resp.body.items[i].apellido = users[i].Apellido
              /\ resp.body.items[i].email = users[i].Email
              /\ resp.body.items[i].reparto = users[i].Reparto
              /\ resp.body.items[i].created_at = users[i].CreatedAt
              /\ resp.body.items[i].updated_at = users[i].UpdatedAt

\* a GET listed two users created at different times
C15_Witness ==
    /\ req.kind = "GET"
    /\ resp.status = 200
    /\ Len(resp.body.items) = 2
    /\ resp.body.items[1].created_at # resp.body.items[2].created_at
    /\ resp.body.items[1].nombre # resp.body.items[1].apellido

----------------------------------------------------------------------------
(* Responses *)

\* the payload has the four keys, and nombre, apellido and reparto are not
\* empty
OtherFieldsValid(body) ==
    /\ body.kind = "object"
    /\ \A k \in {"nombre", "apellido", "reparto"} : body[k] \notin {<<>>, << <<>> >>}
    /\ body.email \notin {<<>>, << <<>> >>}

\* the email of the payload differs from the email of a stored user in
\* letter case or surrounding blanks at most
EmailOfStoredUser(body) ==
    \E i \in DOMAIN users : SameNormalized(body.email[1], users[i].Email)

\* C18 as stated: a POST whose email differs from a stored one only in
\* letter case or surrounding blanks is answered 500 with the generic
\* message and inserts nothing.
C18_AsStated ==
    [][ \A body \in Bodies :
          (PostUsuarios(body) /\ OtherFieldsValid(body) /\ EmailOfStoredUser(body))
          => /\ resp' = Response(500, JSONObject("error", <<"no se pudo crear el usuario">>))
             /\ users' = users ]_vars

\* C18: a POST whose email differs from a stored one only in letter case is
\* answered 500 with the generic message; one whose email has surrounding
\* blanks is answered 400 by the validation; neither inserts a row.
C18_DuplicateEmailRefused ==
    [][ \A body \in Bodies :
          (PostUsuarios(body) /\ OtherFieldsValid(body) /\ EmailOfStoredUser(body))
          => /\ users' = users
             /\ IF body.email[1] = Core(body.email[1])
                THEN resp' = Response(500, JSONObject("error", <<"no se pudo crear el usuario">>))
                ELSE resp'.status = 400 ]_vars

\* a POST whose email is a stored one with blanks around it and another
\* letter case was answered 400
C18_Witness ==
    /\ req.kind = "POST"
    /\ OtherFieldsValid(req.body)
    /\ EmailOfStoredUser(req.body)
    /\ req.body.email[1] # Core(req.body.email[1])
    /\ \A i \in DOMAIN users : users[i].Email # Core(req.body.email[1])
    /\ resp.status = 400

\* C19: a POST gets one response, 400, 500 or 201: 400 exactly for an
\* invalid payload, and then createUser is not called; 500 exactly when the
\* payload is valid and createUser returns an error; 201 exactly when the
\* payload is valid and createUser returns none.
C19_PostAnsweredOnce ==
    req.kind = "POST" =>
        /\ Len(writes) = 1
        /\ resp = writes[1]
        /\ resp.status \in {400, 500, 201}
        /\ resp.status = 400 <=> InvalidBody(req.body)
        /\ resp.status = 400 => svcRet.creates = 0
        /\ resp.status = 500 <=>
              (~InvalidBody(req.body) /\ svcRet.creates = 1 /\ svcRet.err # ErrNil)
        /\ resp.status = 201 <=>
              (~InvalidBody(req.body) /\ svcRet.creates = 1 /\ svcRet.err = ErrNil)

\* a valid POST was answered 500 once while the database was down
C19_Witness ==
    /\ req.kind = "POST"
    /\ ~InvalidBody(req.body)
    /\ svcRet.err = ErrConn
    /\ writes = <<Response(500, JSONObject("error", <<"no se pudo crear el usuario">>))>>

\* C20: a GET gets one response: 500 with the fixed error body and no user
\* in it exactly when listUsers returns an error, 200 with the list
\* otherwise.
C20_GetAnsweredOnce ==
    req.kind = "GET" =>
        /\ Len(writes) = 1
        /\ resp = writes[1]
        /\ svcRet.lists = 1
        /\ IF svcRet.err # ErrNil
           THEN resp = [status |-> 500,
                        body |-> [kind |-> "object", key |-> "error",
                                  value |-> <<"no se pudo obtener usuarios">>, items |-> <<>>]]
           ELSE /\ resp.status = 200
                /\ resp.body.kind = "array"
                /\ Len(resp.body.items) = Len(svcRet.users.elems)
                /\ \A i \in DOMAIN resp.body.items :
                      resp.body.items[i].id = svcRet.users.elems[i].ID

\* a GET failed while two users were stored
C20_Witness ==
    /\ req.kind = "GET"
    /\ Len(users) = 2
    /\ svcRet.err # ErrNil
    /\ resp.status = 500
    /\ Len(writes) = 1

----------------------------------------------------------------------------
(* Configuration and logger *)

\* the field of the configuration read from key k, and its default
ConfigValue(c, k) ==
    CASE k = "APP_ENV" -> c.Env
      [] k = "HTTP_PORT" -> c.HttpPort
      [] k = "DATABASE_DSN" -> c.DatabaseDSN
DefaultOf(k) ==
    CASE k = "APP_ENV" -> "dev"
      [] k = "HTTP_PORT" -> "8080"
      [] k = "DATABASE_DSN" -> "user:password@tcp(localhost:3306)/dbname"

\* C16 as stated: Load yields the default exactly when the variable is
\* unset in the environment Load is called in, and the variable's value
\* when it is set, the empty string included.
C16_AsStated ==
    [][ CallLoad =>
          \A k \in Keys :
              /\ osEnv[k] = <<>> <=> ConfigValue(cfg', k) = DefaultOf(k)
              /\ osEnv[k] # <<>> => ConfigValue(cfg', k) = osEnv[k][1] ]_vars

\* C16: Load yields the variable's value when it is set in the environment,
\* the empty string included; otherwise the value the .env file gives the
\* key, if any; and the default exactly when neither defines it.
C16_EnvThenDotenvThenDefault ==
    [][ CallLoad =>
          \A k \in Keys :
              /\ (osEnv[k] = <<>> /\ dotenv[k] = <<>>) <=> ConfigValue(cfg', k) = DefaultOf(k)
              /\ osEnv[k] # <<>> => ConfigValue(cfg', k) = osEnv[k][1]
              /\ (osEnv[k] = <<>> /\ dotenv[k] # <<>>) => ConfigValue(cfg', k) = dotenv[k][1] ]_vars

\* Load ran with APP_ENV set to the empty string, HTTP_PORT given by the
\* .env file only and DATABASE_DSN given by neither
C16_Witness ==
    /\ cfg.loaded
    /\ cfg.Env = ""
    /\ cfg.HttpPort = "y"
    /\ dotenv["HTTP_PORT"] = <<"y">>
    /\ dotenv["APP_ENV"] = <<"y">>
    /\ cfg.DatabaseDSN = DefaultOf("DATABASE_DSN")

\* C17 as stated: whatever the order of the calls, Info and Error never use
\* a logger that is not initialised.
C17_NoUninitialisedLogger ==
    pc # "panicked"

----------------------------------------------------------------------------
(* Concurrency *)

\* the rows whose email is e up to letter case and surrounding blanks
RowsWithEmail(e) == {i \in DOMAIN users : SameNormalized(users[i].Email, e)}

\* connections c and d have handled POSTs whose emails normalize alike up
\* to the states in sts
SameEmailIn(c, d, sts) ==
    /\ c # d
    /\ conns[c].st \in sts
    /\ conns[d].st \in sts
    /\ OtherFieldsValid(conns[c].body)
    /\ OtherFieldsValid(conns[d].body)
    /\ SameNormalized(conns[c].body.email[1], conns[d].body.email[1])

\* one of the two was answered 201 and the other 500
OneCreatedOneFailed(c, d) ==
    \/ conns[c].resp.status = 201 /\ conns[d].resp.status = 500
    \/ conns[c].resp.status = 500 /\ conns[d].resp.status = 201

\* C14 as stated: of two POSTs handled at the same time whose emails
\* normalize to the same value, one is answered 201, the other 500, and one
\* row holds the email.
C14_AsStated ==
    \A c, d \in Conns :
        SameEmailIn(c, d, {"done"}) =>
            /\ OneCreatedOneFailed(c, d)
            /\ Cardinality(RowsWithEmail(conns[c].body.email[1])) = 1

\* C14: of two POSTs handled at the same time that both pass validation,
\* whose emails normalize to the same value and whose INSERTs both reach
\* the store, one INSERT succeeds and the other is refused as a duplicate,
\* one row holds the email, and the answers are 201 for the first and 500
\* for the second.
C14_OneOfTwoConcurrentCreates ==
    \A c, d \in Conns :
        (/\ SameEmailIn(c, d, {"created", "done"})
         /\ ~InvalidBody(conns[c].body)
         /\ ~InvalidBody(conns[d].body)
         /\ conns[c].err # ErrConn
         /\ conns[d].err # ErrConn)
        => /\ {conns[c].err, conns[d].err} = {ErrNil, ErrUnique}
           /\ Cardinality(RowsWithEmail(conns[c].body.email[1])) = 1
           /\ conns[c].st = "done" =>
                 conns[c].resp.status = (IF conns[c].err = ErrNil THEN 201 ELSE 500)
           /\ (conns[c].st = "done" /\ conns[d].st = "done") => OneCreatedOneFailed(c, d)

\* the POST with the email A@a was answered 500 while the POST with the
\* email a@a, whose INSERT came first, was still to be answered
C14_Witness ==
    /\ conns["c1"].st = "done"
    /\ conns["c2"].st = "created"
    /\ conns["c1"].body.email[1] = <<"A", "@", "a">>
    /\ conns["c2"].body.email[1] = <<"a", "@", "a">>
    /\ conns["c1"].resp.status = 500
    /\ conns["c2"].err = ErrNil
    /\ Len(users) = 1
    /\ dbUp

----------------------------------------------------------------------------
(* Calls of the repository *)

\* C21: handling one POST calls the repository's create at most once, and
\* once when the service is called; handling one GET calls the repository's
\* listAll exactly once, also when it returns an error; the store runs one
\* statement per call.
C21_NoRetry ==
    /\ req.kind = "POST" =>
          /\ repoRet.creates <= 1
          /\ repoRet.creates = svcRet.creates
          /\ repoRet.lists = 0
          /\ Len(dbOps) = repoRet.creates
    /\ req.kind = "GET" =>
          /\ repoRet.lists = 1
          /\ repoRet.creates = 0
          /\ dbOps = <<"SELECT">>

\* a GET whose query failed with users in the store, after a POST that the
\* store had refused
C21_Witness ==
    /\ req.kind = "GET"
    /\ repoRet.err = ErrConn
    /\ repoRet.lists = 1
    /\ Len(users) >= 1
    /\ resp.status = 500

----------------------------------------------------------------------------
(* Stored fields *)

\* C23 as stated: no row of the store has an empty nombre, apellido, email
\* or reparto.
C23_NoEmptyTextField ==
    \A i \in DOMAIN users :
        /\ users[i].Nombre # <<>>
        /\ users[i].Apellido # <<>>
        /\ users[i].Email # <<>>
        /\ users[i].Reparto # <<>>

\* C24: the service hands the repository a user with zero id and zero
\* timestamps, and the row a POST answered 201 adds has the id of the
\* store's counter and the store's time of the insert, also when the body
\* names an id, a created_at and an updated_at of its own.
C24_IdAndTimesFromStore ==
    [][ \A body \in Bodies :
          PostUsuarios(body) =>
              /\ svcRet'.creates = 1 =>
                    /\ repoRet'.arg[1].ID = 0
                    /\ repoRet'.arg[1].CreatedAt = 0
                    /\ repoRet'.arg[1].UpdatedAt = 0
              /\ resp'.status = 201 =>
                    /\ Len(users') = Len(users) + 1
                    /\ users'[Len(users')].ID = nextId
                    /\ users'[Len(users')].CreatedAt = now
                    /\ users'[Len(users')].UpdatedAt = now ]_vars

\* a POST naming the id 9 and the times 9 was answered 201 at time 2 and
\* its row is the second of the table
C24_Witness ==
    /\ req.kind = "POST"
    /\ req.body.extra # <<>>
    /\ req.body.extra[1].id = 9
    /\ resp.status = 201
    /\ Len(users) = 2
    /\ LastRow.ID = 2
    /\ LastRow.CreatedAt = 2

----------------------------------------------------------------------------
(* Concurrent creates with different emails *)

\* connections c and d have answered POSTs whose emails normalize to
\* different values, and no INSERT found the store unreachable
AnsweredDifferentEmails(c, d) ==
    /\ c # d
    /\ conns[c].st = "done"
    /\ conns[d].st = "done"
    /\ OtherFieldsValid(conns[c].body)
    /\ OtherFieldsValid(conns[d].body)
    /\ ~SameNormalized(conns[c].body.email[1], conns[d].body.email[1])
    /\ conns[c].err # ErrConn
    /\ conns[d].err # ErrConn

\* both were answered 201 and the table holds their two rows, with
\* different ids
BothCreated(c, d) ==
    /\ conns[c].resp.status = 201
    /\ conns[d].resp.status = 201
    /\ Len(users) = 2
    /\ users[1].ID # users[2].ID
    /\ \E i \in DOMAIN users : SameNormalized(users[i].Email, conns[c].body.email[1])
    /\ \E i \in DOMAIN users : SameNormalized(users[i].Email, conns[d].body.email[1])

\* C25 as stated: two POSTs handled at the same time whose emails normalize
\* to different values, on a reachable store, are both answered 201 and add
\* two rows with different ids.
C25_AsStated ==
    \A c, d \in Conns : AnsweredDifferentEmails(c, d) => BothCreated(c, d)

\* C25: two POSTs handled at the same time that both pass validation and
\* whose emails normalize to different values, on a reachable store, are
\* both answered 201 and add two rows with different ids, in either order
\* of the INSERTs.
C25_BothConcurrentCreatesSucceed ==
    \A c, d \in Conns :
        (/\ AnsweredDifferentEmails(c, d)
         /\ ~InvalidBody(conns[c].body)
         /\ ~InvalidBody(conns[d].body))
        => BothCreated(c, d)

\* the POST with the email b@a and the POST with the email A@a were both
\* answered 201; the INSERT of the second came first
C25_Witness ==
    /\ conns["c1"].st = "done"
    /\ conns["c2"].st = "done"
    /\ conns["c1"].body.email[1] = <<"b", "@", "a">>
    /\ conns["c2"].body.email[1] = <<"A", "@", "a">>
    /\ conns["c1"].resp.status = 201
    /\ conns["c2"].resp.status = 201
    /\ Len(users) = 2
    /\ users[1].Email = <<"a", "@", "a">>
    /\ users[2].ID = 2

----------------------------------------------------------------------------
(* Panics *)

\* the request handled last reached the call of the nil service
PanicAnswered ==
    /\ svcNil
    /\ \/ req.kind = "POST" /\ ~InvalidBody(req.body)
       \/ req.kind = "GET"

\* C26: a request whose handler panics on the nil service is answered 500,
\* once and with nothing from the handler; the process goes on listening
\* and the next request of each route can be handled.
C26_PanicRecovered ==
    PanicAnswered =>
        /\ resp.status = 500
        /\ writes = <<resp>>
        /\ svcRet.creates = 0 /\ svcRet.lists = 0
        /\ pc = "listening"
        /\ ENABLED GetHealth
        /\ ENABLED GetUsuarios
        /\ \A body \in Bodies : ENABLED PostUsuarios(body)

\* a valid POST to a handler with a nil service was answered 500 and the
\* server still listens
C26_Witness ==
    /\ svcNil
    /\ req.kind = "POST"
    /\ ~InvalidBody(req.body)
    /\ resp.status = 500
    /\ pc = "listening"

----------------------------------------------------------------------------
(* main and the logger *)

\* the last line written to stderr
LastError == out.stderr[Len(out.stderr)]

\* C27: in main, every step that can call logger.Info or logger.Error, the
\* failure paths of NewDatabase and of Run included, and every step that
\* writes a line, starts with both loggers initialised; a panic of main is
\* a failure of the database, never a call on a nil logger.
C27_InitBeforeLogging ==
    [][ /\ (pc \in {"loaded", "server", "listening"} /\ pc' # pc)
            => (loggers.info /\ loggers.error)
        /\ LinesWritten' # LinesWritten => (loggers.info /\ loggers.error)
        /\ (pc' = "panicked" /\ pc # "panicked")
            => (pc = "loaded" /\ ~(dbConn'.open /\ dbConn'.migrated)) ]_vars

\* gorm.Open failed and the failure was written by the error logger
C27_Witness ==
    /\ pc = "panicked"
    /\ ~dbConn.open
    /\ Len(out.stderr) = 2
    /\ LastError.prefix = "[ERROR] "
    /\ LastError.msg = "error al conectar la Base de Datos: %v"
    /\ loggers.error

----------------------------------------------------------------------------
(* Reads and resubmission *)

\* C29: handling GET /api/v1/usuarios or GET /health leaves the table as
\* it was, row by row and field by field, timestamps included, and the id
\* counter as well, whether the request succeeds or fails.
C29_ReadsLeaveStoreUnchanged ==
    [][ (GetUsuarios \/ GetHealth) => (users' = users /\ nextId' = nextId) ]_vars

\* a GET was answered 200 at a time later than the last update of a row
C29_Witness ==
    /\ req.kind = "GET"
    /\ resp.status = 200
    /\ Len(users) >= 1
    /\ users[1].UpdatedAt < now
    /\ dbUp

\* C30: createUser given the four text fields of a stored user hands the
\* repository those very values, is rejected and inserts nothing; with the
\* store reachable the rejection is the unique index's.
C30_StoredValuesAreNormalized ==
    [][ \A i \in DOMAIN users :
          CallCreateUserOfStored(i) =>
              /\ repoRet'.arg[1].Nombre = users[i].Nombre
              /\ repoRet'.arg[1].Apellido = users[i].Apellido
              /\ repoRet'.arg[1].Email = users[i].Email
              /\ repoRet'.arg[1].Reparto = users[i].Reparto
              /\ svcRet'.err # ErrNil
              /\ users' = users
              /\ dbUp => repoRet'.err = ErrUnique ]_vars

\* the fields of a stored user whose email had been submitted in upper case
\* and with blanks were submitted again and refused as a duplicate
C30_Witness ==
    /\ req.kind = "createUser"
    /\ repoRet.err = ErrUnique
    /\ \E i \in DOMAIN users :
          /\ req.args = <<users[i].Nombre, users[i].Apellido, users[i].Email, users[i].Reparto>>
          /\ users[i].Email = <<"a", "@", "a">>
          /\ users[i].Nombre = <<"J", " ", "b">>

====
